---- MODULE Spec2Model ----
(***************************************************************************)
(* The embedding service (embedding_server.py) and its smoke-test client   *)
(* (test_client.py).                                                       *)
(*                                                                         *)
(* The service is one process: the module body builds the FastAPI app,     *)
(* loads the SentenceTransformer model, installs the CORS middleware and   *)
(* registers POST /embed.  Requests are handled on one event loop; the     *)
(* handler is a coroutine (async def) that calls the synchronous           *)
(* model.encode, so the loop is held for the whole inference.              *)
(*                                                                         *)
(* What the libraries do for the calls the source makes is modelled from   *)
(* their behaviour: pydantic (v2) validation of List[str], Starlette's     *)
(* middleware order (ServerErrorMiddleware outside CORSMiddleware outside  *)
(* the router), CORSMiddleware's handling of the Origin header, and        *)
(* SentenceTransformer.encode as an order-preserving per-text map.         *)
(***************************************************************************)
EXTENDS Integers, Sequences, FiniteSets, TLC

\* ------------------------------------------------------------- bounds
\* Connections the server accepts in one run.
MaxReqs == 2
\* Longest "texts" list a caller sends.
MaxLen == 2

Reqs == 1..MaxReqs

\* ------------------------------------------------------------- constants
\* test_client.py:19, the status of a successful reply.
StatusOK == 200
\* FastAPI's reply to a body that fails TextsInput validation.
StatusUnprocessable == 422
\* The router's reply to a method the /embed route does not serve.
StatusMethodNotAllowed == 405
\* ServerErrorMiddleware's reply to an exception the handler lets escape.
StatusServerError == 500

\* embedding_server.py:8
ModelName == "all-MiniLM-L6-v2"

\* test_client.py:10-11, the two texts of the fixed payload.
ClientText1 == "Beautiful 3-bedroom house in London with garden"
ClientText2 == "Modern apartment in Manchester city center"

\* ------------------------------------------------------------- JSON bodies
\* A JSON value inside "texts": a string, or a non-string (a number).
Str(s) == [kind |-> "str", val |-> s]
Num(s) == [kind |-> "num", val |-> s]
Elems == {Str(ClientText1), Str(ClientText2), Num("1")}

RECURSIVE SeqsUpTo(_, _)
SeqsUpTo(S, n) ==
    IF n = 0 THEN {<<>>}
    ELSE LET shorter == SeqsUpTo(S, n - 1)
         IN  shorter \cup {Append(s, e) : s \in {t \in shorter : Len(t) = n - 1}, e \in S}

\* A request body: the key "texts" is missing, holds a scalar, or holds a list.
Bodies ==
    {[kind |-> "missing", items |-> <<>>], [kind |-> "scalar", items |-> <<>>]}
    \cup {[kind |-> "list", items |-> l] : l \in SeqsUpTo(Elems, MaxLen)}

\* test_client.py:8-13
ClientPayload ==
    [kind |-> "list", items |-> <<Str(ClientText1), Str(ClientText2)>>]

\* ------------------------------------------------------------- pure parts
\* TextsInput, embedding_server.py:15-16: texts must be present and a list
\* whose every element is a string.
TextsInputValidMutant(body) == TRUE
TextsInputValid(body) ==
    /\ body.kind = "list"
    /\ \A i \in 1..Len(body.items) : body.items[i].kind = "str"

\* The validated model's input.texts: the strings of the list.
TextsOf(body) == [i \in 1..Len(body.items) |-> body.items[i].val]

\* One text's embedding under the loaded model, normalize_embeddings=True
\* (embedding_server.py:19).  The vector's numbers are the model's; it is
\* identified by the model, the text and the normalisation flag.
EmbedOne(m, t) == [model |-> m, text |-> t, normalized |-> TRUE]

\* model.encode(texts, normalize_embeddings=True): an array with one row per
\* text, in the order of texts.
Encode(m, texts) ==
    [rows |-> Len(texts), data |-> [i \in 1..Len(texts) |-> EmbedOne(m, texts[i])]]

\* ndarray.tolist(): the rows as a list, first row first.
ToList(arr) == [i \in 1..arr.rows |-> arr.data[i]]

\* The handler's body once encode has returned (embedding_server.py:19-20).
EmbedResultReversed(m, texts) ==
    [embeddings |-> [i \in 1..Len(texts) |-> ToList(Encode(m, texts))[Len(texts) + 1 - i]]]
EmbedResultTruncated(m, texts) ==
    [embeddings |->
        [i \in 1..(IF Len(texts) = 0 THEN 0 ELSE Len(texts) - 1) |->
            ToList(Encode(m, texts))[i]]]
EmbedResult(m, texts) == [embeddings |-> ToList(Encode(m, texts))]

\* embedding_server.py:18, `async def`: the handler runs on the event loop's
\* thread (a plain `def` would run in the thread pool).
HandlerIsAsyncMutant == FALSE
HandlerIsAsync == TRUE

\* CORSMiddleware with allow_origins=["*"] (embedding_server.py:9-14): a
\* response that passes through it gets the wildcard header when the request
\* carried an Origin header, and none otherwise.
NoOrigin == "-"
Origins == {NoOrigin, "http://a.example"}
CorsHeader(origin) == IF origin = NoOrigin THEN "-" ELSE "*"

\* A preflight: OPTIONS with Origin and Access-Control-Request-Method.
IsPreflight(h) == h.method = "OPTIONS" /\ h.origin # NoOrigin /\ h.acrm

\* ------------------------------------------------------------- state
VARIABLES
    phase,      \* the process: "uninitialized", "loaded", "ready", "failed"
    model,      \* the module-level model handle
    loads,      \* SentenceTransformer(...) constructions so far
    pc,         \* per connection: "idle", "received", "encoding", "done"
    hdr,        \* per connection: the request's method and CORS headers
    input,      \* per connection inside the handler: the parsed body
    calls,      \* per connection: model.encode invocations for the request in progress
    closed,     \* per connection: the caller went away during the request in progress
    loop,       \* the connection whose handler holds the event loop, or 0
    sent,       \* the exchange the step just taken completed, if any
    faults,     \* whether an inference has raised
    cpc,        \* client: "start", "waiting", "returned", "raised"
    creq,       \* client: the connection that carries its request, or 0
    cposts,     \* client: requests.post calls
    cresp,      \* client: the response it received
    cresult,    \* client: test_embedding_service's return value
    cprinted    \* client: what it printed

vars == <<phase, model, loads, pc, hdr, input, calls, closed, loop, sent, faults,
          cpc, creq, cposts, cresp, cresult, cprinted>>

serverVars == <<phase, model, loads>>
clientVars == <<cpc, creq, cposts, cresp, cresult, cprinted>>

NoHdr == [method |-> "-", origin |-> NoOrigin, acrm |-> FALSE]
NoInput == [kind |-> "none", items |-> <<>>]
NoExchange == [kind |-> "none"]
NoResponse == [status |-> 0, embeddings |-> <<>>, body |-> "-", acao |-> "-"]

Init ==
    /\ phase = "uninitialized"
    /\ model = "none"
    /\ loads = 0
    /\ pc = [r \in Reqs |-> "idle"]
    /\ hdr = [r \in Reqs |-> NoHdr]
    /\ input = [r \in Reqs |-> NoInput]
    /\ calls = [r \in Reqs |-> 0]
    /\ closed = [r \in Reqs |-> FALSE]
    /\ loop = 0
    /\ sent = NoExchange
    /\ faults = FALSE
    /\ cpc = "start"
    /\ creq = 0
    /\ cposts = 0
    /\ cresp = NoResponse
    /\ cresult = FALSE
    /\ cprinted = <<>>


\* ------------------------------------------------------------- startup
\* embedding_server.py:7-8: the module body constructs the model once; when
\* the constructor raises, the import fails and the process never serves.
LoadModel ==
    /\ phase = "uninitialized"
    /\ loads' = loads + 1
    /\ \/ /\ model' = ModelName
          /\ phase' = "loaded"
       \/ /\ model' = model
          /\ phase' = "failed"
    /\ sent' = NoExchange
    /\ UNCHANGED <<pc, hdr, input, calls, closed, loop, faults>>
    /\ UNCHANGED clientVars

\* embedding_server.py:9-20: the middleware and the route are installed, and
\* the import completes; the server then accepts connections.
Configure ==
    /\ phase = "loaded"
    /\ phase' = "ready"
    /\ sent' = NoExchange
    /\ UNCHANGED <<model, loads, pc, hdr, input, calls, closed, loop, faults>>
    /\ UNCHANGED clientVars

\* Requests reach the app only once the module body has run to its end.
CanServeMutant == phase # "failed"
CanServe == phase = "ready"

\* ------------------------------------------------------------- responses
Response(status, embeddings, body, acao) ==
    [status |-> status, embeddings |-> embeddings, body |-> body, acao |-> acao]

\* What reaches the client when the handler lets an exception escape
\* (embedding_server.py:19 has no try/except): ServerErrorMiddleware, which
\* sits outside CORSMiddleware, answers 500 itself.
FaultResponseMutant(origin) == Response(StatusOK, <<>>, "embeddings", CorsHeader(origin))
FaultResponse(origin) == Response(StatusServerError, <<>>, "Internal Server Error", "-")

\* The 200 reply of the handler, through CORSMiddleware.
OkResponse(origin, result) ==
    Response(StatusOK, result.embeddings, "embeddings", CorsHeader(origin))

\* The exchange of connection r ends with response resp.  The exchange is
\* recorded in sent with the request's encode count and whether the caller
\* was still there; the connection's per-request state is then dropped.
Complete(r, outcome, body, resp) ==
    /\ pc' = [pc EXCEPT ![r] = "done"]
    /\ hdr' = [hdr EXCEPT ![r] = NoHdr]
    /\ input' = [input EXCEPT ![r] = NoInput]
    /\ sent' = [kind |-> "exchange", rid |-> r, outcome |-> outcome,
                hdr |-> hdr[r], body |-> body,
                resp |-> resp, calls |-> calls[r], delivered |-> ~closed[r]]
    /\ closed' = [closed EXCEPT ![r] = FALSE]
    /\ calls' = [calls EXCEPT ![r] = 0]
    /\ cresp' = IF r = creq THEN resp ELSE cresp
    /\ UNCHANGED <<cpc, creq, cposts, cresult, cprinted>>
    /\ UNCHANGED serverVars

\* The next free connection: connections are taken in order.
NextFree(r) == pc[r] = "idle" /\ (IF r = 1 THEN TRUE ELSE pc[r - 1] # "idle")

\* ------------------------------------------------------------- the service
\* A caller other than the smoke-test client sends a request; the server
\* reads its request line and headers.
Receive(r) ==
    /\ CanServe
    /\ loop = 0
    /\ NextFree(r)
    /\ \E method \in {"POST", "OPTIONS"}, origin \in Origins, acrm \in BOOLEAN :
          /\ method = "POST" => ~acrm
          /\ hdr' = [hdr EXCEPT ![r] = [method |-> method, origin |-> origin, acrm |-> acrm]]
    /\ pc' = [pc EXCEPT ![r] = "received"]
    /\ sent' = NoExchange
    /\ UNCHANGED <<input, calls, closed, loop, faults>>
    /\ UNCHANGED serverVars
    /\ UNCHANGED clientVars

\* CORSMiddleware answers a preflight itself (embedding_server.py:9-14).
Preflight(r) ==
    /\ loop = 0
    /\ pc[r] = "received"
    /\ IsPreflight(hdr[r])
    /\ Complete(r, "preflight", NoInput, Response(StatusOK, <<>>, "OK", "*"))
    /\ UNCHANGED <<loop, faults>>

\* Another OPTIONS request reaches the router, which serves /embed for POST
\* only (embedding_server.py:17).
MethodNotAllowed(r) ==
    /\ loop = 0
    /\ pc[r] = "received"
    /\ hdr[r].method = "OPTIONS"
    /\ ~IsPreflight(hdr[r])
    /\ Complete(r, "not_allowed", NoInput,
                Response(StatusMethodNotAllowed, <<>>, "Method Not Allowed",
                         CorsHeader(hdr[r].origin)))
    /\ UNCHANGED <<loop, faults>>

\* The bodies connection r may carry: the client's is its fixed payload.
BodiesFor(r) == IF r = creq THEN {ClientPayload} ELSE Bodies

\* POST /embed with a body TextsInput rejects: FastAPI answers 422 and the
\* handler is not called (embedding_server.py:15-18).
RejectBody(r) ==
    /\ loop = 0
    /\ pc[r] = "received"
    /\ hdr[r].method = "POST"
    /\ \E body \in BodiesFor(r) :
          /\ ~TextsInputValid(body)
          /\ Complete(r, "rejected", body,
                      Response(StatusUnprocessable, <<>>, "detail",
                               CorsHeader(hdr[r].origin)))
    /\ UNCHANGED <<loop, faults>>

\* POST /embed with a valid body: the handler starts and enters model.encode
\* (embedding_server.py:18-19).  A coroutine handler keeps the event loop.
EncodeBegin(r) ==
    /\ loop = 0
    /\ pc[r] = "received"
    /\ hdr[r].method = "POST"
    /\ \E body \in BodiesFor(r) :
          /\ TextsInputValid(body)
          /\ input' = [input EXCEPT ![r] = body]
    /\ pc' = [pc EXCEPT ![r] = "encoding"]
    /\ calls' = [calls EXCEPT ![r] = @ + 1]
    /\ loop' = IF HandlerIsAsync THEN r ELSE 0
    /\ sent' = NoExchange
    /\ UNCHANGED <<hdr, closed, faults>>
    /\ UNCHANGED serverVars
    /\ UNCHANGED clientVars

\* model.encode returns; the handler returns the embeddings
\* (embedding_server.py:19-20).
EncodeReturn(r) ==
    /\ pc[r] = "encoding"
    /\ Complete(r, "returned", input[r],
                OkResponse(hdr[r].origin, EmbedResult(model, TextsOf(input[r]))))
    /\ loop' = 0
    /\ UNCHANGED faults

\* model.encode raises (out of memory, a device fault); the exception leaves
\* the handler (embedding_server.py:19).
EncodeRaise(r) ==
    /\ pc[r] = "encoding"
    /\ Complete(r, "raised", input[r], FaultResponse(hdr[r].origin))
    /\ loop' = 0
    /\ faults' = TRUE

\* The caller of connection r goes away while its inference runs.  The
\* handler never looks at the connection (embedding_server.py:18-20).
Disconnect(r) ==
    /\ pc[r] = "encoding"
    /\ r # creq
    /\ ~closed[r]
    /\ closed' = [closed EXCEPT ![r] = TRUE]
    /\ sent' = NoExchange
    /\ UNCHANGED <<pc, hdr, input, calls, loop, faults>>
    /\ UNCHANGED serverVars
    /\ UNCHANGED clientVars

\* ------------------------------------------------------------- the client
\* test_client.py:16, requests.post(url, json=payload): one request with the
\* fixed payload, accepted by the running service.
ClientPost(r) ==
    /\ cpc = "start"
    /\ CanServe
    /\ loop = 0
    /\ NextFree(r)
    /\ cposts' = cposts + 1
    /\ cpc' = "waiting"
    /\ creq' = r
    /\ hdr' = [hdr EXCEPT ![r] = [method |-> "POST", origin |-> NoOrigin, acrm |-> FALSE]]
    /\ pc' = [pc EXCEPT ![r] = "received"]
    /\ sent' = NoExchange
    /\ UNCHANGED <<input, calls, closed, loop, faults, cresp, cresult, cprinted>>
    /\ UNCHANGED serverVars

\* test_client.py:16: no service listens; requests.post raises and the
\* function returns nothing.
ClientPostRefused ==
    /\ cpc = "start"
    /\ ~CanServe
    /\ cposts' = cposts + 1
    /\ cpc' = "raised"
    /\ sent' = NoExchange
    /\ UNCHANGED <<pc, hdr, input, calls, closed, loop, faults, creq, cresp,
                   cresult, cprinted>>
    /\ UNCHANGED serverVars

\* test_client.py:19, 27, 31: the return value.
ClientResultMutant(status) == TRUE
ClientResult(status) == status = StatusOK

\* test_client.py:23-25 and 29-30: what is printed.
ClientOutput(resp) ==
    IF resp.status = StatusOK
    THEN [i \in 1..Len(resp.embeddings) |-> <<"embedding", i, resp.embeddings[i]>>]
    ELSE <<<<"Error", resp.status>>, <<"text", resp.body>>>>

\* test_client.py:19-31: the response has arrived.
ClientFinish ==
    /\ cpc = "waiting"
    /\ cresp # NoResponse
    /\ cresult' = ClientResult(cresp.status)
    /\ cprinted' = ClientOutput(cresp)
    /\ cpc' = "returned"
    /\ sent' = NoExchange
    /\ UNCHANGED <<pc, hdr, input, calls, closed, loop, faults, creq, cposts, cresp>>
    /\ UNCHANGED serverVars

\* ------------------------------------------------------------- specification
Next ==
    \/ LoadModel
    \/ Configure
    \/ \E r \in Reqs : Receive(r)
    \/ \E r \in Reqs : Preflight(r)
    \/ \E r \in Reqs : MethodNotAllowed(r)
    \/ \E r \in Reqs : RejectBody(r)
    \/ \E r \in Reqs : EncodeBegin(r)
    \/ \E r \in Reqs : EncodeReturn(r)
    \/ \E r \in Reqs : EncodeRaise(r)
    \/ \E r \in Reqs : Disconnect(r)
    \/ \E r \in Reqs : ClientPost(r)
    \/ ClientPostRefused
    \/ ClientFinish

Spec == Init /\ [][Next]_vars

TypeOK ==
    /\ phase \in {"uninitialized", "loaded", "ready", "failed"}
    /\ loop \in Reqs \cup {0}
    /\ \A r \in Reqs : pc[r] \in {"idle", "received", "encoding", "done"}
    /\ cpc \in {"start", "waiting", "returned", "raised"}


\* ------------------------------------------------------------- properties
IsExchange == sent.kind = "exchange"
IsEmbedExchange == IsExchange /\ sent.hdr.method = "POST"

\* The body is a list of strings.
ListOfStrings(body) ==
    body.kind = "list" /\ \A i \in 1..Len(body.items) : body.items[i].kind = "str"

\* C1: a 200 reply to POST /embed whose texts is a list of strings (the
\* empty list included) has exactly len(texts) embeddings, and the i-th is
\* the encoding of the i-th text.
C1_ShapeAndOrder ==
    (IsEmbedExchange /\ ListOfStrings(sent.body) /\ sent.resp.status = StatusOK) =>
        /\ Len(sent.resp.embeddings) = Len(sent.body.items)
        /\ \A i \in 1..Len(sent.body.items) :
              sent.resp.embeddings[i] = EmbedOne(ModelName, sent.body.items[i].val)

\* A 200 reply for two different texts, in the order they were sent.
C1_Witness ==
    /\ IsEmbedExchange
    /\ sent.resp.status = StatusOK
    /\ Len(sent.body.items) = 2
    /\ sent.body.items[1] # sent.body.items[2]
    /\ Len(sent.resp.embeddings) = 2

\* The body misses texts or has a non-string element.
MissingOrNonString(body) ==
    \/ body.kind = "missing"
    \/ body.kind = "list" /\ \E i \in 1..Len(body.items) : body.items[i].kind # "str"

\* C2: a POST /embed body that misses texts, or whose texts has a non-string
\* element, gets a 4xx reply, and model.encode is not called for it.
C2_ValidationRejects ==
    (IsEmbedExchange /\ MissingOrNonString(sent.body)) =>
        /\ sent.resp.status \in 400..499
        /\ sent.calls = 0
        /\ sent.resp.embeddings = <<>>
        /\ sent.outcome = "rejected"

\* A rejected list that mixes a string and a non-string.
C2_Witness ==
    /\ IsEmbedExchange
    /\ sent.outcome = "rejected"
    /\ sent.body.kind = "list"
    /\ \E i, j \in 1..Len(sent.body.items) :
          sent.body.items[i].kind = "str" /\ sent.body.items[j].kind = "num"

\* C3: every reply to POST /embed carries either an embedding for each text
\* of the request (status 200) or no embedding at all (an error status).
C3_NoPartialResponse ==
    IsEmbedExchange =>
        \/ /\ sent.resp.status = StatusOK
           /\ sent.body.kind = "list"
           /\ Len(sent.resp.embeddings) = Len(sent.body.items)
        \/ /\ sent.resp.status # StatusOK
           /\ sent.resp.embeddings = <<>>

\* A failed inference over two texts: nothing is returned.
C3_Witness ==
    /\ IsEmbedExchange
    /\ sent.outcome = "raised"
    /\ Len(sent.body.items) = 2
    /\ sent.resp.embeddings = <<>>

\* C4: when the inference raises for a valid request, the reply is a 5xx,
\* encode was called once for the request (no retry), and the service is
\* still serving with the event loop released; after any fault the process
\* stays ready.
C4_FaultIsServerError ==
    /\ (IsExchange /\ sent.outcome = "raised") =>
          /\ sent.resp.status \in 500..599
          /\ sent.calls = 1
          /\ loop = 0
    /\ faults => phase = "ready"

\* After a fault, a later request is answered with its embeddings.
C4_Witness ==
    /\ faults
    /\ IsExchange
    /\ sent.outcome = "returned"
    /\ sent.resp.status = StatusOK

\* A request is in progress or has just been answered.
SomeRequest == IsExchange \/ \E r \in Reqs : pc[r] # "idle"

\* C5: the model is constructed at most once; whenever a request is in
\* progress or answered, it has been constructed exactly once, the handle is
\* the loaded model and the start-up has completed; after a failed load no
\* request is ever handled.
C5_LoadedOnceBeforeServing ==
    /\ loads <= 1
    /\ SomeRequest => (loads = 1 /\ model = ModelName /\ phase = "ready")
    /\ phase = "failed" => ~SomeRequest

\* A second request is answered and the model has still been loaded once.
C5_Witness ==
    /\ IsExchange
    /\ sent.outcome = "returned"
    /\ \E r \in Reqs : r # sent.rid /\ pc[r] = "done"
    /\ loads = 1

\* C6, for the requests CORS applies to (those that carry an Origin header):
\* every reply carries Access-Control-Allow-Origin: *.  Without the
\* restriction to requests with an Origin header the statement fails sooner,
\* on any request that has none.
C6_WildcardOnEveryResponse ==
    (IsExchange /\ sent.hdr.origin # NoOrigin) => sent.resp.acao = "*"

\* C9: the client calls requests.post at most once, with its fixed payload;
\* once it has returned, the result is True exactly when the status was 200,
\* and for another status it printed the status and the body.
C9_ClientReportsStatus ==
    /\ cposts <= 1
    /\ cpc # "start" => cposts = 1
    /\ (IsExchange /\ sent.rid = creq) => sent.body = ClientPayload
    /\ cpc = "returned" =>
          /\ cresult = (cresp.status = StatusOK)
          /\ cresp.status # StatusOK =>
                /\ cresult = FALSE
                /\ cprinted = <<<<"Error", cresp.status>>, <<"text", cresp.body>>>>

\* The client was answered 500 and reports failure.
C9_Witness ==
    /\ cpc = "returned"
    /\ cresp.status = StatusServerError
    /\ cresult = FALSE

Encoding == {r \in Reqs : pc[r] = "encoding"}

\* C10: at most one request is inside model.encode at any time; while one
\* is, no step of the server touches another request, and the request itself
\* only stays in encode or ends with its reply (a disconnect does not end it).
C10_InferenceNeverOverlaps ==
    /\ [](Cardinality(Encoding) <= 1)
    /\ [][\A r \in Reqs : pc[r] = "encoding" =>
             /\ pc'[r] \in {"encoding", "done"}
             /\ \A q \in Reqs \ {r} : pc'[q] = pc[q]]_vars

\* A request is inside encode, its caller has gone, another request waits.
C10_Witness ==
    \E r, q \in Reqs :
        /\ pc[r] = "encoding"
        /\ closed[r]
        /\ pc[q] = "received"

====
